---- MODULE Spec2Model ----
(***************************************************************************)
(* Model of the provisioning session state machine (lib/state_manager.py)  *)
(* and of the drift computation of the system audit                        *)
(* (scripts/audit-system.py).                                              *)
(*                                                                         *)
(* One SessionState manager runs in one process.  Every operation mutates  *)
(* the in-memory document and then runs _save, whose filesystem steps      *)
(* (open the temporary file, write it chunk by chunk, rename it over the   *)
(* session file) are separate steps of the model, so that a crash or a     *)
(* concurrent reader can fall between any two of them.                     *)
(*                                                                         *)
(* Conventions                                                             *)
(*   - a Python dict is a function whose domain is its key set;            *)
(*   - None is the record NoneVal (for resume_point) or the string         *)
(*     NoTask / NoProfile where the other values are strings;              *)
(*   - datetime.now().isoformat() is the token TS: the model keeps which   *)
(*     timestamp fields exist, not the time of day;                        *)
(*   - a string whose length matters is a run-length list                  *)
(*     << <<char, count>>, ... >>, so that s[:500] is computed exactly.    *)
(***************************************************************************)
EXTENDS Integers, Sequences, FiniteSets, TLC

VARIABLES
    state,          \* SessionState.state: the in-memory document
    session_file,   \* SessionState.session_file: the path _save writes to
    fs,             \* the sessions directory tree: path -> file content
    pc,             \* position of the process inside the running operation
    ret,            \* where _save returns to
    op,             \* the operation in progress, or the last one that ended
    result,         \* what the last operation returned
    err,            \* the exception the last operation raised, or "none"
    alive,          \* "running", "crashed" or "exited"
    exit_code,      \* the exit status once alive = "exited"
    nops,           \* number of operations called so far
    restarts,       \* number of processes started after the first
    last_saved,     \* history: the document of the last completed _save
    rd_obs,         \* what the concurrent reader last read
    drift,          \* what compare_with_session last returned
    audit,          \* the run_audit call in progress, or the last one that ended
    saved,          \* history: path -> the document _save last stored there
    wh              \* the file handle of a _save that a signal interrupted

vars == <<state, session_file, fs, pc, ret, op, result, err, alive, exit_code,
          nops, restarts, last_saved, rd_obs, drift, audit, saved, wh>>

----------------------------------------------------------------------------
(* Bounds of the model *)

MaxTaskOps == 4
MaxPhaseOps == 4
MaxCmdOps == 4
MaxLifeOps == 4
MaxAuditOps == 3
MaxRestarts == 1
MaxResumeOps == 4
MaxRefLen == 3
MaxAllOps == 3
MaxTripOps == 5
MaxSignalOps == 3
MaxReloadOps == 4
MaxResumedOps == 4
MaxAuditTasks == 3

(* Program constants *)

ErrorLimit == 500
ResumeErrorLimit == 200
CommandLimit == 1000
OutputLimit == 500
ReasonLimit == 500

----------------------------------------------------------------------------
(* Strings as run-length lists *)

RECURSIVE StrLen(_)
StrLen(s) == IF s = <<>> THEN 0 ELSE s[1][2] + StrLen(Tail(s))

\* s[:n]
RECURSIVE Truncate(_, _)
Truncate(s, n) ==
    IF n <= 0 \/ s = <<>> THEN <<>>
    ELSE IF s[1][2] >= n THEN << <<s[1][1], n>> >>
    ELSE << s[1] >> \o Truncate(Tail(s), n - s[1][2])

Chars(c, n) == << <<c, n>> >>

EmptyStr == <<>>

----------------------------------------------------------------------------
(* Dictionaries *)

EmptyDict == [k \in {} |-> k]

Put(d, k, v) == [x \in (DOMAIN d) \cup {k} |-> IF x = k THEN v ELSE d[x]]

Remove(d, k) == [x \in (DOMAIN d) \ {k} |-> d[x]]

SeqRange(s) == {s[i] : i \in 1..Len(s)}

\* d.get(k, default)
Get(d, k, default) == IF k \in DOMAIN d THEN d[k] ELSE default

TS == "ts"
\* the reader has read nothing yet / open() found no file
NotRead == <<"not read">>
Missing == <<"missing">>
NoneVal == [none |-> TRUE]
NoTask == "None"
\* no interrupted _save holds an open file
NoHandle == [open |-> FALSE]
\* no audit has been started
NoAudit == [pc |-> "idle"]
NoProfile == "None"

----------------------------------------------------------------------------
(* Input sets *)

TaskIds == {"a", "b"}
SessionIds == {"s1"}
Profiles == {NoProfile, "fullstack-web"}
Phases == {"init", "requirements", "plan"}
QuestionIds == {"runtime"}
Answers == {"A", "B"}
UserKeys == {"git_name"}
UserValues == {"x", "y"}
Languages == {"bash"}
Commands == {Chars("c", 4), Chars("c", 1000) \o Chars("d", 5)}
Outputs == {EmptyStr, Chars("o", 7), Chars("o", 500) \o Chars("p", 100)}
Errors == {EmptyStr, Chars("e", 4), Chars("h", 200) \o Chars("i", 300),
           Chars("e", 200) \o Chars("f", 300) \o Chars("g", 500)}
Reasons == {EmptyStr, Chars("r", 600)}

Updates == {[expansion_history |-> <<"e1">>], [meta |-> [status |-> "active"]]}

Plans == {<<>>, <<"a">>, <<"b">>, <<"a", "b">>, <<"b", "a">>, <<"a", "a">>}

----------------------------------------------------------------------------
(* Paths: sessions_dir / <dir> / <stem><suffix> *)

Path(dir, stem, suffix) == [dir |-> dir, stem |-> stem, suffix |-> suffix]
NoPath == Path("", "", "")

\* Path.with_suffix
WithSuffix(p, s) == [p EXCEPT !.suffix = s]

\* directory / path.name
InDir(dir, p) == [p EXCEPT !.dir = dir]

SessionName(id) == Path("active", id, ".json")

Exists(p) == p \in DOMAIN fs

\* Faulty variant: the file is copied to the target and the source is left behind
CopyFile(files, src, dst) == Put(files, dst, files[src])

\* Path.rename: atomic, replaces an existing target
Rename(files, src, dst) == Put(Remove(files, src), dst, files[src])

----------------------------------------------------------------------------
(* json.dump / json.load.  A document is written as one chunk per top-level *)
(* key, in the dict's insertion order, followed by the closing brace; a     *)
(* file that stops before the closing brace does not parse.                 *)

KeyOrder == <<"meta", "phase", "profile", "choices", "user_data", "tasks",
              "plan", "execution", "resume_point", "expansion_history">>

EndMark == <<"}", "">>

HasKey(doc, k) == k \in DOMAIN doc

\* None is written as null and read back as None
JsonNull == "null"
JsonNullObject == [json |-> "null"]

\* the JSON value json.dump writes for the value of a top-level key
Encode(k, v) ==
    CASE k = "profile" -> IF v = NoProfile THEN JsonNull ELSE v
      [] k = "resume_point" -> IF v = NoneVal THEN JsonNullObject ELSE v
      [] k = "execution" ->
            [v EXCEPT !.current_task = IF @ = NoTask THEN JsonNull ELSE @]
      [] OTHER -> v

\* the Python value json.load builds from it
Decode(k, v) ==
    CASE k = "profile" -> IF v = JsonNull THEN NoProfile ELSE v
      [] k = "resume_point" -> IF v = JsonNullObject THEN NoneVal ELSE v
      [] k = "execution" ->
            [v EXCEPT !.current_task = IF @ = JsonNull THEN NoTask ELSE @]
      [] OTHER -> v

Serialize(doc) ==
    LET keys == SelectSeq(KeyOrder, LAMBDA k : HasKey(doc, k))
    IN  [i \in 1..Len(keys) |-> <<keys[i], Encode(keys[i], doc[keys[i]])>>]
            \o <<EndMark>>

IsComplete(data) == Len(data) > 0 /\ data[Len(data)][1] = EndMark[1]

Corrupt == [corrupt |-> TRUE]

\* Faulty variant: the loader rebuilds the document and forgets the
\* expansion history
ParseNoHistory(data) ==
    IF IsComplete(data)
    THEN LET n == Len(data) - 1
         IN  [k \in {data[i][1] : i \in 1..n} |->
                 IF k = "expansion_history" THEN <<>>
                 ELSE Decode(k, data[CHOOSE i \in 1..n : data[i][1] = k][2])]
    ELSE Corrupt

Parse(data) ==
    IF IsComplete(data)
    THEN LET n == Len(data) - 1
         IN  [k \in {data[i][1] : i \in 1..n} |->
                 Decode(k, data[CHOOSE i \in 1..n : data[i][1] = k][2])]
    ELSE Corrupt

----------------------------------------------------------------------------
(* The document and the operations on it *)

EmptyDoc == EmptyDict

NewDoc(id, profile) ==
    [meta |-> [id |-> id, created |-> TS, updated |-> TS,
               status |-> "active", version |-> "1.0"],
     phase |-> [current |-> "init", history |-> <<>>],
     profile |-> profile,
     choices |-> EmptyDict,
     user_data |-> EmptyDict,
     tasks |-> EmptyDict,
     plan |-> <<>>,
     execution |-> [commands |-> <<>>, current_task |-> NoTask],
     resume_point |-> NoneVal,
     expansion_history |-> <<>>]

Stamp(doc) == [doc EXCEPT !.meta = Put(@, "updated", TS)]

\* Faulty variant: every call is taken as a phase change
PhaseChangesAlways(doc, phase) == TRUE

\* if current != phase
PhaseChanges(doc, phase) == doc.phase.current # phase

DocSetPhase(doc, phase) ==
    [doc EXCEPT !.phase = [current |-> phase,
                           history |-> Append(@.history,
                                              [phase |-> @.current, ended |-> TS])]]

DocRecordChoice(doc, q, answer, value) ==
    [doc EXCEPT !.choices =
        Put(@, q, [answer |-> answer, value |-> value, timestamp |-> TS])]

DocRecordUserData(doc, k, v) == [doc EXCEPT !.user_data = Put(@, k, v)]

\* the top-level keys whose value is a dict
DictFields == {"meta", "phase", "choices", "user_data", "tasks", "execution"}

\* _deep_update of a dict whose values in `updates` are not dicts
MergeFlat(base, updates) ==
    [x \in (DOMAIN base) \cup (DOMAIN updates) |->
        IF x \in DOMAIN updates THEN updates[x] ELSE base[x]]

\* _deep_update(self.state, updates)
DocUpdate(doc, updates) ==
    [k \in (DOMAIN doc) \cup (DOMAIN updates) |->
        IF k \notin DOMAIN updates THEN doc[k]
        ELSE IF k \in DOMAIN doc /\ k \in DictFields
             THEN MergeFlat(doc[k], updates[k])
             ELSE updates[k]]

\* Faulty variant: every identifier of the plan is reset to pending
RECURSIVE SeedPendingAll(_, _)
SeedPendingAll(tasks, ids) ==
    IF ids = <<>> THEN tasks
    ELSE SeedPendingAll(Put(tasks, ids[1], [status |-> "pending"]), Tail(ids))

RECURSIVE SeedPending(_, _)
SeedPending(tasks, ids) ==
    IF ids = <<>> THEN tasks
    ELSE SeedPending(IF ids[1] \in DOMAIN tasks THEN tasks
                     ELSE Put(tasks, ids[1], [status |-> "pending"]),
                     Tail(ids))

DocSetPlan(doc, ids) ==
    [doc EXCEPT !.plan = ids, !.tasks = SeedPending(@, ids)]

\* Faulty variant: an existing resume point is updated in place and keeps its error
DocStartTaskKeepsError(doc, id) ==
    [doc EXCEPT !.execution.current_task = id,
                !.tasks = Put(@, id, [status |-> "in_progress", started |-> TS]),
                !.resume_point = IF @ = NoneVal THEN [task_id |-> id, action |-> "retry"]
                                 ELSE Put(Put(@, "task_id", id), "action", "retry")]

\* Faulty variant: starting a task also marks the session active again
DocStartTaskReactivates(doc, id) ==
    [doc EXCEPT !.execution.current_task = id,
                !.tasks = Put(@, id, [status |-> "in_progress", started |-> TS]),
                !.resume_point = [task_id |-> id, action |-> "retry"],
                !.meta = Put(@, "status", "active")]

\* Faulty variant: the existing record is updated in place and keeps its other fields
DocStartTaskUpdate(doc, id) ==
    [doc EXCEPT !.execution.current_task = id,
                !.tasks = Put(@, id, Put(Put(Get(@, id, EmptyDict),
                                             "status", "in_progress"),
                                         "started", TS)),
                !.resume_point = [task_id |-> id, action |-> "retry"]]

DocStartTask(doc, id) ==
    [doc EXCEPT !.execution.current_task = id,
                !.tasks = Put(@, id, [status |-> "in_progress", started |-> TS]),
                !.resume_point = [task_id |-> id, action |-> "retry"]]

\* Faulty variant: current_task is cleared only when it names the completed task
DocCompleteTaskIfCurrent(doc, id) ==
    [doc EXCEPT !.tasks[id] = Put(Put(@, "status", "completed"), "completed", TS),
                !.execution.current_task = IF @ = id THEN NoTask ELSE @]

\* Faulty variant: completing a task also clears the resume point
DocCompleteTaskClearsResume(doc, id) ==
    [doc EXCEPT !.tasks[id] = Put(Put(@, "status", "completed"), "completed", TS),
                !.execution.current_task = NoTask,
                !.resume_point = NoneVal]

DocCompleteTask(doc, id) ==
    [doc EXCEPT !.tasks[id] = Put(Put(@, "status", "completed"), "completed", TS),
                !.execution.current_task = NoTask]

\* Faulty variant: the two limits are taken the wrong way round
DocFailTaskSwapped(doc, id, error) ==
    [doc EXCEPT !.tasks[id] = Put(Put(Put(@, "status", "failed"),
                                      "error", Truncate(error, ResumeErrorLimit)),
                                  "failed_at", TS),
                !.resume_point = [task_id |-> id, action |-> "retry_or_skip",
                                  error |-> Truncate(error, ErrorLimit)]]

DocFailTask(doc, id, error) ==
    [doc EXCEPT !.tasks[id] = Put(Put(Put(@, "status", "failed"),
                                      "error", Truncate(error, ErrorLimit)),
                                  "failed_at", TS),
                !.resume_point = [task_id |-> id, action |-> "retry_or_skip",
                                  error |-> Truncate(error, ResumeErrorLimit)]]

DocSkipTask(doc, id) ==
    [doc EXCEPT !.tasks = Put(@, id, [status |-> "skipped", skipped_at |-> TS])]

\* Faulty variant: the new entry is inserted at the head of the log
DocLogCommandStartPrepend(doc, command, language) ==
    [doc EXCEPT !.execution.commands =
        <<[command |-> Truncate(command, CommandLimit),
           language |-> language, started |-> TS, status |-> "running"]>> \o @]

DocLogCommandStart(doc, command, language) ==
    [doc EXCEPT !.execution.commands =
        Append(@, [command |-> Truncate(command, CommandLimit),
                   language |-> language, started |-> TS, status |-> "running"])]

\* Faulty variant: the most recent entry is taken whatever the index
ListPosLast(len, index) == len

\* list[index] with Python's negative indices; 0 when out of range
ListPos(len, index) ==
    IF index >= 0 THEN (IF index < len THEN index + 1 ELSE 0)
    ELSE (IF len + index >= 0 THEN len + index + 1 ELSE 0)

EndEntry(cmd, success, output, error) ==
    LET c1 == Put(Put(cmd, "ended", TS), "status",
                  IF success THEN "success" ELSE "failed")
        c2 == IF output # EmptyStr THEN Put(c1, "output", Truncate(output, OutputLimit))
              ELSE c1
    IN  IF error # EmptyStr THEN Put(c2, "error", Truncate(error, OutputLimit))
        ELSE c2

DocLogCommandEnd(doc, index, success, output, error) ==
    LET pos == ListPos(Len(doc.execution.commands), index)
    IN  [doc EXCEPT !.execution.commands[pos] = EndEntry(@, success, output, error)]

\* Faulty variant: the completion time is stamped but the status is left as it was
DocCompleteSessionStatusLate(doc) ==
    [doc EXCEPT !.meta = Put(@, "completed", TS)]

DocCompleteSession(doc) ==
    [doc EXCEPT !.meta = Put(Put(@, "status", "completed"), "completed", TS)]

\* Faulty variant: the meta block is rebuilt and loses the creation time
DocFailSessionNewMeta(doc, reason) ==
    [doc EXCEPT !.meta = [id |-> @.id, status |-> "failed", failed_at |-> TS,
                          updated |-> TS, version |-> "1.0"]]

DocFailSession(doc, reason) ==
    LET m == Put(Put(doc.meta, "status", "failed"), "failed_at", TS)
    IN  [doc EXCEPT !.meta = IF reason # EmptyStr
                             THEN Put(m, "failure_reason", Truncate(reason, ReasonLimit))
                             ELSE m]

\* Faulty variant: the status is set but interrupted_at is not stamped
DocInterruptNoStamp(doc) ==
    [doc EXCEPT !.meta = Put(@, "status", "interrupted")]

DocInterrupt(doc) ==
    [doc EXCEPT !.meta = Put(Put(@, "status", "interrupted"), "interrupted_at", TS)]

\* state.get("meta", {}).get("status")
StatusOf(doc) == Get(Get(doc, "meta", EmptyDict), "status", "None")

GetCompletedTasks(doc) ==
    LET tasks == Get(doc, "tasks", EmptyDict)
    IN  {id \in DOMAIN tasks : Get(tasks[id], "status", "None") = "completed"}

----------------------------------------------------------------------------
(* Initial state: a constructed manager, an empty sessions tree *)

Init ==
    /\ state = EmptyDoc
    /\ session_file = NoPath
    /\ fs = EmptyDict
    /\ pc = "idle"
    /\ ret = "idle"
    /\ op = [name |-> "__init__"]
    /\ result = NoneVal
    /\ err = "none"
    /\ alive = "running"
    /\ exit_code = -1
    /\ nops = 0
    /\ restarts = 0
    /\ last_saved = EmptyDoc
    /\ rd_obs = NotRead
    /\ drift = NoneVal
    /\ audit = NoAudit
    /\ saved = EmptyDict
    /\ wh = NoHandle

Idle == pc = "idle" /\ alive = "running"

\* the manager holds a session (provision.py calls an operation only on a
\* manager it has just created or loaded a session with)
HasSession == state # EmptyDoc

other_vars == <<fs, alive, exit_code, restarts, last_saved, rd_obs, drift, audit, saved, wh>>

\* Faulty variant: the operation returns without calling _save
MutateNoSave(call, doc, back) ==
    /\ op' = call
    /\ state' = doc
    /\ pc' = back
    /\ err' = "none"
    /\ result' = NoneVal
    /\ nops' = nops + 1
    /\ UNCHANGED <<ret, session_file, other_vars>>

\* the operation has mutated the document and now calls _save
Mutate(call, doc, back) ==
    /\ op' = call
    /\ state' = doc
    /\ pc' = "save"
    /\ ret' = back
    /\ err' = "none"
    /\ result' = NoneVal
    /\ nops' = nops + 1
    /\ UNCHANGED <<session_file, other_vars>>

\* the operation returns without touching anything
NoOp(call) ==
    /\ op' = call
    /\ err' = "none"
    /\ result' = NoneVal
    /\ nops' = nops + 1
    /\ UNCHANGED <<state, pc, ret, session_file, other_vars>>

\* Faulty variant: the current task is cleared before the failing lookup
RaiseDirty(call, exception) ==
    /\ op' = call
    /\ err' = exception
    /\ result' = NoneVal
    /\ nops' = nops + 1
    /\ state' = [state EXCEPT !.execution.current_task = NoTask]
    /\ UNCHANGED <<pc, ret, session_file, other_vars>>

\* the operation raises before it has changed anything
Raise(call, exception) ==
    /\ op' = call
    /\ err' = exception
    /\ result' = NoneVal
    /\ nops' = nops + 1
    /\ UNCHANGED <<state, pc, ret, session_file, other_vars>>

----------------------------------------------------------------------------
(* _save *)

\* Faulty variant: the document is written straight into the session file
TmpFileInPlace == session_file

\* tmp_file = self.session_file.with_suffix('.tmp')
TmpFile == WithSuffix(session_file, ".tmp")

\* if not self.session_file: return; stamp updated; open(tmp_file, 'w')
SaveOpen ==
    /\ pc = "save" /\ alive = "running"
    /\ IF session_file = NoPath
       THEN /\ pc' = ret
            /\ UNCHANGED <<state, fs>>
       ELSE /\ state' = Stamp(state)
            /\ fs' = Put(fs, TmpFile, <<>>)
            /\ pc' = "write"
    /\ UNCHANGED <<session_file, ret, op, result, err, alive, exit_code, nops, restarts,
                   last_saved, rd_obs, drift, audit, saved, wh>>

\* json.dump: the next chunk reaches the temporary file
SaveWrite ==
    /\ pc = "write" /\ alive = "running"
    /\ LET data == Serialize(state)
           n == Len(fs[TmpFile])
       IN  /\ fs' = Put(fs, TmpFile, SubSeq(data, 1, n + 1))
           /\ pc' = IF n + 1 = Len(data) THEN "rename" ELSE "write"
    /\ UNCHANGED <<state, session_file, ret, op, result, err, alive, exit_code,
                   nops, restarts, last_saved, rd_obs, drift, audit, saved, wh>>

\* tmp_file.rename(self.session_file)
SaveRename ==
    /\ pc = "rename" /\ alive = "running"
    /\ fs' = Rename(fs, TmpFile, session_file)
    /\ last_saved' = state
    /\ saved' = Put(saved, session_file, state)
    /\ pc' = ret
    /\ UNCHANGED <<state, session_file, ret, op, result, err, alive, exit_code,
                   nops, restarts, rd_obs, drift, audit, wh>>

----------------------------------------------------------------------------
(* Operations *)

CreateSession(id, profile) ==
    /\ Idle /\ ~HasSession
    /\ op' = [name |-> "create_session", profile |-> profile]
    /\ state' = NewDoc(id, profile)
    /\ session_file' = SessionName(id)
    /\ pc' = "save"
    /\ ret' = "return_id"
    /\ err' = "none"
    /\ result' = NoneVal
    /\ nops' = nops + 1
    /\ UNCHANGED other_vars

ReturnId ==
    /\ pc = "return_id" /\ alive = "running"
    /\ result' = [value |-> state.meta.id]
    /\ pc' = "idle"
    /\ UNCHANGED <<state, session_file, fs, ret, op, err, alive, exit_code, nops, restarts,
                   last_saved, rd_obs, drift, audit, saved, wh>>

\* load_session: the path is taken over before the file is looked at
LoadSession(p) ==
    /\ Idle
    /\ op' = [name |-> "load_session", path |-> p,
              held |-> Get(Get(state, "meta", EmptyDict), "id", "None")]
    /\ session_file' = p
    /\ IF ~Exists(p)
       THEN /\ err' = "FileNotFoundError"
            /\ result' = NoneVal
            /\ last_saved' = EmptyDoc
            /\ UNCHANGED state
       ELSE IF ~IsComplete(fs[p])
       THEN /\ err' = "JSONDecodeError"
            /\ result' = NoneVal
            /\ last_saved' = EmptyDoc
            /\ UNCHANGED state
       ELSE /\ state' = Parse(fs[p])
            /\ err' = "none"
            /\ result' = [value |-> Parse(fs[p])]
            /\ last_saved' = Parse(fs[p])
    /\ nops' = nops + 1
    /\ UNCHANGED <<fs, pc, ret, alive, exit_code, restarts, rd_obs, drift, audit, saved, wh>>

Update(updates) ==
    /\ Idle /\ HasSession
    /\ Mutate([name |-> "update", updates |-> updates], DocUpdate(state, updates), "idle")

SetPhase(phase) ==
    /\ Idle /\ HasSession
    /\ LET call == [name |-> "set_phase", phase |-> phase]
       IN  IF PhaseChanges(state, phase)
           THEN Mutate(call, DocSetPhase(state, phase), "idle")
           ELSE NoOp(call)

RecordChoice(q, answer, value) ==
    /\ Idle /\ HasSession
    /\ Mutate([name |-> "record_choice", question_id |-> q],
              DocRecordChoice(state, q, answer, value), "idle")

RecordUserData(k, v) ==
    /\ Idle /\ HasSession
    /\ Mutate([name |-> "record_user_data", key |-> k],
              DocRecordUserData(state, k, v), "idle")

SetPlan(ids) ==
    /\ Idle /\ HasSession
    /\ Mutate([name |-> "set_plan", tasks |-> ids], DocSetPlan(state, ids), "idle")

StartTask(id) ==
    /\ Idle /\ HasSession
    /\ Mutate([name |-> "start_task", task_id |-> id], DocStartTask(state, id), "idle")

CompleteTask(id) ==
    /\ Idle /\ HasSession
    /\ LET call == [name |-> "complete_task", task_id |-> id]
       IN  IF id \in DOMAIN state.tasks
           THEN Mutate(call, DocCompleteTask(state, id), "idle")
           ELSE Raise(call, "KeyError")

FailTask(id, error) ==
    /\ Idle /\ HasSession
    /\ LET call == [name |-> "fail_task", task_id |-> id, error |-> error]
       IN  IF id \in DOMAIN state.tasks
           THEN Mutate(call, DocFailTask(state, id, error), "idle")
           ELSE Raise(call, "KeyError")

SkipTask(id) ==
    /\ Idle /\ HasSession
    /\ Mutate([name |-> "skip_task", task_id |-> id], DocSkipTask(state, id), "idle")

LogCommandStart(command, language) ==
    /\ Idle /\ HasSession
    /\ Mutate([name |-> "log_command_start", command |-> command],
              DocLogCommandStart(state, command, language), "return_index")

\* return len(self.state["execution"]["commands"]) - 1
ReturnIndex ==
    /\ pc = "return_index" /\ alive = "running"
    /\ result' = [value |-> Len(state.execution.commands) - 1]
    /\ pc' = "idle"
    /\ UNCHANGED <<state, session_file, fs, ret, op, err, alive, exit_code, nops, restarts,
                   last_saved, rd_obs, drift, audit, saved, wh>>

LogCommandEnd(index, success, output, error) ==
    /\ Idle /\ HasSession
    /\ LET call == [name |-> "log_command_end", index |-> index, success |-> success]
           len == Len(state.execution.commands)
       IN  IF index < len
           THEN IF ListPos(len, index) # 0
                THEN Mutate(call, DocLogCommandEnd(state, index, success, output, error),
                            "idle")
                ELSE Raise(call, "IndexError")
           ELSE NoOp(call)

\* Open Interpreter hooks on the global manager _state

\* before_command: if _state: _state.log_command_start(command, language)
BeforeCommand(command, language) ==
    /\ Idle /\ HasSession
    /\ Mutate([name |-> "before_command", command |-> command],
              DocLogCommandStart(state, command, language), "idle")

\* index = len(commands) - 1
HookIndex(doc) == Len(doc.execution.commands) - 1

\* after_command: end the most recent entry, then look at the current task
AfterCommand(output, error) ==
    /\ Idle /\ HasSession
    /\ LET index == HookIndex(state)
           success == error = EmptyStr
           call == [name |-> "after_command", index |-> index, success |-> success,
                    error |-> error]
       IN  IF state.execution.commands # <<>>
           THEN Mutate(call, DocLogCommandEnd(state, index, success, output, error),
                       "after_command.fail_task")
           ELSE NoOp(call)

\* current_task = ...get("current_task")
\* if current_task and not success: _state.fail_task(current_task, error or "Command failed")
AfterCommandFailTask ==
    /\ pc = "after_command.fail_task" /\ alive = "running"
    /\ LET current_task == state.execution.current_task
       IN  IF current_task # NoTask /\ ~op.success
           THEN IF current_task \in DOMAIN state.tasks
                THEN /\ state' = DocFailTask(state, current_task, op.error)
                     /\ pc' = "save"
                     /\ ret' = "idle"
                     /\ UNCHANGED err
                ELSE /\ err' = "KeyError"
                     /\ pc' = "idle"
                     /\ UNCHANGED <<state, ret>>
           ELSE /\ pc' = "idle"
                /\ UNCHANGED <<state, ret, err>>
    /\ UNCHANGED <<op, result, nops, session_file, other_vars>>

CompleteSession ==
    /\ Idle /\ HasSession
    /\ Mutate([name |-> "complete_session"], DocCompleteSession(state), "relocate")

FailSession(reason) ==
    /\ Idle /\ HasSession
    /\ Mutate([name |-> "fail_session", reason |-> reason],
              DocFailSession(state, reason), "relocate")

\* the directory complete_session / fail_session moves the file to
TargetDir(call) == IF call.name = "complete_session" THEN "completed" ELSE "failed"

\* Faulty variant: the file is moved whatever directory it is in
RelocateAlways ==
    /\ pc = "relocate" /\ alive = "running"
    /\ IF session_file # NoPath
       THEN LET new_path == InDir(TargetDir(op), session_file)
            IN  /\ fs' = Rename(fs, session_file, new_path)
                /\ saved' = Rename(saved, session_file, new_path)
                /\ session_file' = new_path
       ELSE UNCHANGED <<fs, session_file, saved>>
    /\ pc' = "idle"
    /\ UNCHANGED <<state, ret, op, result, err, alive, exit_code, nops, restarts, last_saved,
                   rd_obs, drift, audit, wh>>

\* if self.session_file and self.session_file.parent == self.active_dir:
\*     self.session_file.rename(new_path); self.session_file = new_path
Relocate ==
    /\ pc = "relocate" /\ alive = "running"
    /\ IF session_file # NoPath /\ session_file.dir = "active"
       THEN LET new_path == InDir(TargetDir(op), session_file)
            IN  /\ fs' = Rename(fs, session_file, new_path)
                /\ saved' = Rename(saved, session_file, new_path)
                /\ session_file' = new_path
       ELSE UNCHANGED <<fs, session_file, saved>>
    /\ pc' = "idle"
    /\ UNCHANGED <<state, ret, op, result, err, alive, exit_code, nops, restarts, last_saved,
                   rd_obs, drift, audit, wh>>

----------------------------------------------------------------------------
(* _handle_shutdown: SIGTERM or SIGINT delivered between two operations *)

Signal(signum) ==
    /\ Idle
    /\ op' = [name |-> "_handle_shutdown", signum |-> signum, was |-> StatusOf(state)]
    /\ IF StatusOf(state) = "active"
       THEN /\ state' = DocInterrupt(state)
            /\ pc' = "save"
            /\ ret' = "exit"
       ELSE /\ pc' = "exit"
            /\ UNCHANGED <<state, ret>>
    /\ UNCHANGED <<session_file, fs, result, err, alive, exit_code, nops, restarts, last_saved,
                   rd_obs, drift, audit, saved, wh>>

\* sys.exit(0)
Exit ==
    /\ pc = "exit" /\ alive = "running"
    /\ alive' = "exited"
    /\ exit_code' = 0
    /\ UNCHANGED <<state, session_file, fs, pc, ret, op, result, err, nops, restarts,
                   last_saved, rd_obs, drift, audit, saved, wh>>

----------------------------------------------------------------------------
(* A signal is delivered to the main thread between any two statements, so  *)
(* the handler can also run inside an operation.  start_task and fail_task  *)
(* are given statement by statement; inside _save the steps are those of    *)
(* SaveOpen, SaveWrite and SaveRename.                                      *)

\* self.state["execution"]["current_task"] = task_id
BeginStartTask(id) ==
    /\ Idle /\ HasSession
    /\ op' = [name |-> "start_task", task_id |-> id, before |-> state]
    /\ state' = [state EXCEPT !.execution.current_task = id]
    /\ pc' = "start_task.tasks"
    /\ err' = "none"
    /\ result' = NoneVal
    /\ nops' = nops + 1
    /\ UNCHANGED <<ret, session_file, other_vars>>

\* the two assignments that follow, then self._save()
StepStartTask ==
    /\ alive = "running"
    /\ \/ /\ pc = "start_task.tasks"
          /\ state' = [state EXCEPT !.tasks =
                          Put(@, op.task_id, [status |-> "in_progress", started |-> TS])]
          /\ pc' = "start_task.resume_point"
          /\ UNCHANGED ret
       \/ /\ pc = "start_task.resume_point"
          /\ state' = [state EXCEPT !.resume_point =
                          [task_id |-> op.task_id, action |-> "retry"]]
          /\ pc' = "save"
          /\ ret' = "idle"
    /\ UNCHANGED <<op, err, result, nops, session_file, other_vars>>

\* self.state["tasks"][task_id]["status"] = "failed"
BeginFailTask(id, error) ==
    /\ Idle /\ HasSession
    /\ LET call == [name |-> "fail_task", task_id |-> id, error |-> error,
                    before |-> state]
       IN  IF id \in DOMAIN state.tasks
           THEN /\ op' = call
                /\ state' = [state EXCEPT !.tasks[id] = Put(@, "status", "failed")]
                /\ pc' = "fail_task.error"
                /\ err' = "none"
                /\ result' = NoneVal
                /\ nops' = nops + 1
                /\ UNCHANGED <<ret, session_file, other_vars>>
           ELSE Raise(call, "KeyError")

\* the three assignments that follow, then self._save()
StepFailTask ==
    /\ alive = "running"
    /\ \/ /\ pc = "fail_task.error"
          /\ state' = [state EXCEPT !.tasks[op.task_id] =
                          Put(@, "error", Truncate(op.error, ErrorLimit))]
          /\ pc' = "fail_task.failed_at"
          /\ UNCHANGED ret
       \/ /\ pc = "fail_task.failed_at"
          /\ state' = [state EXCEPT !.tasks[op.task_id] = Put(@, "failed_at", TS)]
          /\ pc' = "fail_task.resume_point"
          /\ UNCHANGED ret
       \/ /\ pc = "fail_task.resume_point"
          /\ state' = [state EXCEPT !.resume_point =
                          [task_id |-> op.task_id, action |-> "retry_or_skip",
                           error |-> Truncate(op.error, ResumeErrorLimit)]]
          /\ pc' = "save"
          /\ ret' = "idle"
    /\ UNCHANGED <<op, err, result, nops, session_file, other_vars>>

\* self.state["plan"] = tasks
BeginSetPlan(ids) ==
    /\ Idle /\ HasSession
    /\ op' = [name |-> "set_plan", tasks |-> ids, before |-> state]
    /\ state' = [state EXCEPT !.plan = ids]
    /\ pc' = "set_plan.tasks"
    /\ err' = "none"
    /\ result' = NoneVal
    /\ nops' = nops + 1
    /\ UNCHANGED <<ret, session_file, other_vars>>

\* the loop that seeds the missing records, then self._save()
StepSetPlan ==
    /\ alive = "running"
    /\ pc = "set_plan.tasks"
    /\ state' = [state EXCEPT !.tasks = SeedPending(@, op.tasks)]
    /\ pc' = "save"
    /\ ret' = "idle"
    /\ UNCHANGED <<op, err, result, nops, session_file, other_vars>>

\* the positions between the statements of an operation, before its _save
MutationPcs == {"start_task.tasks", "start_task.resume_point", "fail_task.error",
                "fail_task.failed_at", "fail_task.resume_point"}

\* what is left unreadable where a write landed in the middle of other data
Torn == <<"torn", "">>

\* closing a file object writes its buffered data at the descriptor's
\* offset: right after the data flushed before if the file is as it was,
\* into the middle of whatever the file holds now if it has been truncated
\* and rewritten under the same descriptor
Overlay(content, h) ==
    IF h.pending = <<>> THEN content
    ELSE IF content = h.flushed THEN h.flushed \o h.pending
    ELSE SubSeq(content, 1, IF Len(h.flushed) < Len(content) THEN Len(h.flushed)
                            ELSE Len(content))
             \o h.pending \o <<Torn>>

\* _handle_shutdown entered while an operation is running.  Inside the
\* with-block of _save the file object is open: of what json.dump has
\* written, any leading part may have reached the file, the rest is still
\* in the file object's buffer.
SignalDuring(signum) ==
    /\ alive = "running"
    /\ pc \notin {"idle", "exit", "unwind"}
    /\ op.name # "_handle_shutdown"
    /\ op' = [name |-> "_handle_shutdown", signum |-> signum, was |-> StatusOf(state),
              at |-> pc, during |-> op]
    /\ IF pc = "write"
       THEN \E k \in 0..Len(fs[TmpFile]) :
               /\ wh' = [open |-> TRUE, flushed |-> SubSeq(fs[TmpFile], 1, k),
                         pending |-> SubSeq(fs[TmpFile], k + 1, Len(fs[TmpFile]))]
               /\ fs' = Put(fs, TmpFile, SubSeq(fs[TmpFile], 1, k))
       ELSE UNCHANGED <<wh, fs>>
    /\ IF StatusOf(state) = "active"
       THEN /\ state' = DocInterrupt(state)
            /\ pc' = "save"
       ELSE /\ pc' = "unwind"
            /\ UNCHANGED state
    /\ ret' = "unwind"
    /\ UNCHANGED <<session_file, result, err, alive, exit_code, nops, restarts,
                   last_saved, rd_obs, drift, audit, saved>>

\* sys.exit(0) raised inside the handler: SystemExit unwinds the interrupted
\* frame, whose with-block closes the file object, and the process exits
Unwind ==
    /\ pc = "unwind" /\ alive = "running"
    /\ IF wh.open
       THEN LET target == IF Exists(TmpFile) THEN TmpFile ELSE session_file
            IN  fs' = Put(fs, target, Overlay(fs[target], wh))
       ELSE UNCHANGED fs
    /\ wh' = [wh EXCEPT !.open = FALSE]
    /\ alive' = "exited"
    /\ exit_code' = 0
    /\ UNCHANGED <<state, session_file, pc, ret, op, result, err, nops, restarts,
                   last_saved, rd_obs, drift, audit, saved>>

----------------------------------------------------------------------------
(* Another process reads the session file while the manager runs.  The     *)
(* file at the session's path is never written in place (only renamed      *)
(* over), so what the reader gets is the content at the time it opens it.  *)

ReadFile(p) == IF Exists(p) THEN fs[p] ELSE Missing

ReaderRead ==
    /\ session_file # NoPath
    /\ rd_obs' = ReadFile(session_file)
    /\ rd_obs' # rd_obs
    /\ UNCHANGED <<state, session_file, fs, pc, ret, op, result, err, alive,
                   exit_code, nops, restarts, last_saved, drift, audit, saved, wh>>

----------------------------------------------------------------------------
(* scripts/audit-system.py: compare_with_session *)

\* report.tools: one ToolStatus per task, those in `installed` found installed
AuditOrder == <<"a", "b", "c", "d">>

ToolList(installed) ==
    [i \in 1..Len(AuditOrder) |->
        [task_id |-> AuditOrder[i], installed |-> AuditOrder[i] \in installed]]

\* task.get('task_id', task.get('id', ''))
TaskIdOf(task) == Get(task, "task_id", Get(task, "id", ""))

\* Faulty variant: the two differences are taken the wrong way round
CompareWithSessionSwapped(tools, session) ==
    LET session_tools == {TaskIdOf(t) : t \in SeqRange(Get(session, "completed_tasks", <<>>))}
        current_installed == {t.task_id : t \in {x \in SeqRange(tools) : x.installed}}
    IN  [added_outside_session |-> session_tools \ current_installed,
         removed_since_session |-> current_installed \ session_tools,
         still_installed |-> current_installed \cap session_tools]

CompareWithSession(tools, session) ==
    LET session_tools == {TaskIdOf(t) : t \in SeqRange(Get(session, "completed_tasks", <<>>))}
        current_installed == {t.task_id : t \in {x \in SeqRange(tools) : x.installed}}
    IN  [added_outside_session |-> current_installed \ session_tools,
         removed_since_session |-> session_tools \ current_installed,
         still_installed |-> current_installed \cap session_tools]

\* the audit process: open(session_path), json.load, compare
Compare(installed) ==
    /\ drift = NoneVal
    /\ session_file # NoPath
    /\ Exists(session_file)
    /\ IsComplete(fs[session_file])
    /\ LET tools == ToolList(installed)
           session == Parse(fs[session_file])
       IN  drift' = [tools |-> tools, session |-> session,
                     drift |-> CompareWithSession(tools, session)]
    /\ UNCHANGED <<state, session_file, fs, pc, ret, op, result, err, alive,
                   exit_code, nops, restarts, last_saved, rd_obs, audit, saved, wh>>

\* a session document in the format compare_with_session reads: a list
\* completed_tasks whose entries name a task by task_id or by id
RefEntries ==
    {[task_id |-> x] : x \in SeqRange(AuditOrder)}
        \cup {[id |-> x] : x \in SeqRange(AuditOrder)}
        \cup {[task_id |-> "b", id |-> "c"]}

SeqsUpTo(S, n) == UNION {[1..k -> S] : k \in 0..n}

RefSession(entries) == [completed_tasks |-> entries]

\* compare_with_session against such a document
CompareReference(installed, entries) ==
    /\ drift = NoneVal
    /\ LET tools == ToolList(installed)
           session == RefSession(entries)
       IN  drift' = [tools |-> tools, session |-> session,
                     installed |-> installed, completed |-> entries,
                     drift |-> CompareWithSession(tools, session)]
    /\ UNCHANGED <<state, session_file, fs, pc, ret, op, result, err, alive,
                   exit_code, nops, restarts, last_saved, rd_obs, audit, saved, wh>>

----------------------------------------------------------------------------
(* scripts/audit-system.py: run_audit *)

\* the task set load_tasks returns, in manifest order: dev.yaml holds b and c
\* (two entries with the same display name), core.yaml holds d and a
Manifest == <<"b", "c", "d", "a">>

TaskName(tid) == IF tid \in {"b", "c"} THEN "node" ELSE IF tid = "d" THEN "git" ELSE "brew"

TaskCategory(tid) == IF tid \in {"b", "c"} THEN "dev" ELSE "core"

\* the strings used as sort keys, in Python's string order
StrOrder == <<"brew", "core", "dev", "git", "node">>

Rank(str) == CHOOSE i \in 1..Len(StrOrder) : StrOrder[i] = str

\* what probing a task does: the check command exits 0, exits non-zero,
\* times out, cannot be launched, is missing from the manifest, or exits 0
\* for a task whose install-path lookup raises
ProbeOutcomes == {"exit0", "nonzero", "timeout", "launch_failure", "no_command",
                  "extract_raises"}

\* run_command: (exit_code, output)
RunCommand(outcome) ==
    CASE outcome = "timeout" -> [code |-> -1, out |-> "timeout"]
      [] outcome = "launch_failure" -> [code |-> -1, out |-> "launch error"]
      [] outcome = "nonzero" -> [code |-> 1, out |-> ""]
      [] OTHER -> [code |-> 0, out |-> "out"]

\* check_tool: the ToolStatus of one task, or the exception it raises
CheckTool(tid, outcome, quick) ==
    LET status == [task_id |-> tid, name |-> TaskName(tid),
                   category |-> TaskCategory(tid), installed |-> FALSE,
                   version |-> "None", install_path |-> "None", error |-> "None"]
    IN  IF outcome = "no_command"
        THEN [status EXCEPT !.error = "No detection command"]
        ELSE LET installed == RunCommand(outcome).code = 0
             IN  IF installed /\ ~quick
                 THEN IF outcome = "extract_raises"
                      THEN [raised |-> "IndexError", task_id |-> tid]
                      ELSE [status EXCEPT !.installed = TRUE, !.version = "1.0",
                                          !.install_path = "/usr/bin/tool"]
                 ELSE [status EXCEPT !.installed = installed]

\* the commands check_tool hands to run_command, in order: none without a
\* check command; the check command; then, when it exited 0 and quick is
\* false, the version command and the install-path lookup (not reached when
\* extracting the command name raises)
ProbeCommands(outcome, quick) ==
    IF outcome = "no_command" THEN <<>>
    ELSE IF RunCommand(outcome).code = 0 /\ ~quick
    THEN IF outcome = "extract_raises" THEN <<"check_command">>
         ELSE <<"check_command", "version_command", "command -v">>
    ELSE <<"check_command">>

Raised(r) == "raised" \in DOMAIN r

\* the sort key (t.category, t.name), compared as Python compares tuples
KeyLE(t, u) ==
    \/ Rank(t.category) < Rank(u.category)
    \/ Rank(t.category) = Rank(u.category) /\ Rank(t.name) <= Rank(u.name)

\* Faulty variant: the tools are left in the order the probes returned
SortToolsNone(tools) == tools

\* list.sort(key=...): stable, equal keys keep the order they had
RECURSIVE SortTools(_)
SortTools(tools) ==
    IF tools = <<>> THEN <<>>
    ELSE LET n == Len(tools)
             front == SortTools(SubSeq(tools, 1, n - 1))
             t == tools[n]
             k == Cardinality({i \in 1..(n - 1) : KeyLE(front[i], t)})
         IN  SubSeq(front, 1, k) \o <<t>> \o SubSeq(front, k + 1, n - 1)

\* len([t for t in tools if ...]): the positions are given as a set
Count(positions) == Cardinality(positions)

\* Faulty variant: a tool with an error is also counted as not installed
SummaryErrorsTwice(tools) ==
    LET all == 1..Len(tools)
        cats == {tools[i].category : i \in all}
    IN  [total_tools |-> Len(tools),
         installed |-> Count({i \in all : tools[i].installed}),
         not_installed |-> Count({i \in all : ~tools[i].installed}),
         errors |-> Count({i \in all : tools[i].error # "None"}),
         by_category |->
            [c \in cats |->
                [installed |->
                    Count({i \in all : tools[i].category = c /\ tools[i].installed}),
                 total |-> Count({i \in all : tools[i].category = c})]]]

Summary(tools) ==
    LET all == 1..Len(tools)
        cats == {tools[i].category : i \in all}
    IN  [total_tools |-> Len(tools),
         installed |-> Count({i \in all : tools[i].installed}),
         not_installed |->
            Count({i \in all : ~tools[i].installed /\ tools[i].error = "None"}),
         errors |-> Count({i \in all : tools[i].error # "None"}),
         by_category |->
            [c \in cats |->
                [installed |->
                    Count({i \in all : tools[i].category = c /\ tools[i].installed}),
                 total |-> Count({i \in all : tools[i].category = c})]]]

session_vars == <<state, session_file, fs, pc, ret, op, result, err, alive, exit_code,
                  nops, restarts, last_saved, rd_obs, drift, saved, wh>>

\* run_audit is called: the report is empty, every probe is still to return
AuditStart(probes, quick, parallel) ==
    /\ audit.pc = "idle"
    /\ audit' = [pc |-> "probing", tasks |-> SubSeq(Manifest, 1, MaxAuditTasks),
                 probes |-> probes, quick |-> quick, parallel |-> parallel,
                 pooled |-> (parallel /\ ~quick),
                 pending |-> 1..MaxAuditTasks, tools |-> <<>>]
    /\ UNCHANGED session_vars

\* the probe of the i-th task returns and its result is appended: in the
\* worker pool whichever finishes next, sequentially the next of the loop
ProbeReturns(i) ==
    /\ audit.pc = "probing"
    /\ i \in audit.pending
    /\ audit.pooled \/ \A j \in audit.pending : i <= j
    /\ LET tid == audit.tasks[i]
           r == CheckTool(tid, audit.probes[tid], audit.quick)
       IN  IF Raised(r)
           THEN audit' = [audit EXCEPT !.pc = "raised", !.pending = @ \ {i}]
           ELSE audit' = [audit EXCEPT !.tools = Append(@, r), !.pending = @ \ {i}]
    /\ UNCHANGED session_vars

\* every probe has returned: sort, summarise, return the report
AuditFinish ==
    /\ audit.pc = "probing"
    /\ audit.pending = {}
    /\ LET tools == SortTools(audit.tools)
       IN  audit' = [pc |-> "done", tasks |-> audit.tasks, probes |-> audit.probes,
                     quick |-> audit.quick, parallel |-> audit.parallel,
                     pooled |-> audit.pooled, pending |-> {},
                     tools |-> tools, summary |-> Summary(tools)]
    /\ UNCHANGED session_vars

\* the tools list the sequential loop builds
SequentialTools(tasks, probes, quick) ==
    SortTools([i \in 1..Len(tasks) |-> CheckTool(tasks[i], probes[tasks[i]], quick)])

----------------------------------------------------------------------------
(* Abrupt termination of the process (kill -9, power loss of the process): *)
(* no handler runs, the files stay as they are.                            *)

Crash ==
    /\ alive = "running"
    /\ HasSession
    /\ alive' = "crashed"
    /\ UNCHANGED <<state, session_file, fs, pc, ret, op, result, err, exit_code,
                   nops, restarts, last_saved, rd_obs, drift, audit, saved, wh>>

\* a new process constructs a new manager over the same sessions directory
Restart ==
    /\ alive \in {"crashed", "exited"}
    /\ state' = EmptyDoc
    /\ session_file' = NoPath
    /\ pc' = "idle"
    /\ ret' = "idle"
    /\ op' = [name |-> "__init__"]
    /\ result' = NoneVal
    /\ err' = "none"
    /\ alive' = "running"
    /\ exit_code' = -1
    /\ last_saved' = EmptyDoc
    /\ restarts' = restarts + 1
    /\ wh' = NoHandle
    /\ UNCHANGED <<fs, nops, rd_obs, drift, audit, saved>>

----------------------------------------------------------------------------

SessionPaths == {Path(d, id, ".json") : d \in {"active", "completed", "failed"},
                                        id \in SessionIds}

Load == \E p \in SessionPaths : LoadSession(p)

SaveStep == SaveOpen \/ SaveWrite \/ SaveRename

Create == \E id \in SessionIds, p \in Profiles : CreateSession(id, p)

TaskOp ==
    \/ \E ids \in Plans : SetPlan(ids)
    \/ \E id \in TaskIds : StartTask(id)
    \/ \E id \in TaskIds : CompleteTask(id)
    \/ \E id \in TaskIds, e \in Errors : FailTask(id, e)
    \/ \E id \in TaskIds : SkipTask(id)

PhaseOp ==
    \/ \E p \in Phases : SetPhase(p)
    \/ \E q \in QuestionIds, a \in Answers : RecordChoice(q, a, a)
    \/ \E k \in UserKeys, v \in UserValues : RecordUserData(k, v)

CmdOp ==
    \/ \E c \in Commands, l \in Languages : LogCommandStart(c, l)
    \/ \E i \in -2..(MaxCmdOps - 1), ok \in BOOLEAN, o \in Outputs, e \in Errors :
          LogCommandEnd(i, ok, o, e)

LifeOp ==
    \/ CompleteSession
    \/ \E r \in Reasons : FailSession(r)

Interrupt == \E signum \in {"SIGTERM", "SIGINT"} : Signal(signum)

\* task operations
NextTasks ==
    \/ Create
    \/ ReturnId
    \/ (nops < MaxTaskOps /\ TaskOp)
    \/ SaveStep

SpecTasks == Init /\ [][NextTasks]_vars

\* phase transitions, choices and user data
NextPhase ==
    \/ Create
    \/ ReturnId
    \/ (nops < MaxPhaseOps /\ PhaseOp)
    \/ SaveStep

SpecPhase == Init /\ [][NextPhase]_vars

\* the command log
NextCmd ==
    \/ Create
    \/ ReturnId
    \/ (nops < MaxCmdOps /\ CmdOp)
    \/ ReturnIndex
    \/ SaveStep

SpecCmd == Init /\ [][NextCmd]_vars

\* session lifecycle, crashes, signals and a concurrent reader
NextLife ==
    \/ Create
    \/ ReturnId
    \/ (nops < MaxLifeOps /\ \E p \in Phases : SetPhase(p))
    \/ (nops < MaxLifeOps /\ \E id \in TaskIds : StartTask(id))
    \/ (nops < MaxLifeOps /\ LifeOp)
    \/ Relocate
    \/ SaveStep
    \/ Interrupt
    \/ Exit
    \/ Crash
    \/ ReaderRead

SpecLife == Init /\ [][NextLife]_vars

\* interruption, crash and resumption in a new process
NextResume ==
    \/ (nops < MaxResumeOps /\ Create)
    \/ ReturnId
    \/ (nops < MaxResumeOps /\ ~HasSession /\ Load)
    \/ (nops < MaxResumeOps /\ SetPhase("requirements"))
    \/ (nops < MaxResumeOps /\ LifeOp)
    \/ Relocate
    \/ SaveStep
    \/ Interrupt
    \/ Exit
    \/ Crash
    \/ (restarts < MaxRestarts /\ Restart)

SpecResume == Init /\ [][NextResume]_vars

\* a session and an audit comparing against it
NextAudit ==
    \/ Create
    \/ ReturnId
    \/ (nops < MaxAuditOps /\ \E ids \in Plans : SetPlan(ids))
    \/ (nops < MaxAuditOps /\ \E id \in TaskIds : StartTask(id))
    \/ (nops < MaxAuditOps /\ \E id \in TaskIds : CompleteTask(id))
    \/ (nops < MaxAuditOps /\ \E id \in TaskIds : SkipTask(id))
    \/ SaveStep
    \/ \E installed \in SUBSET TaskIds : Compare(installed)

SpecAudit == Init /\ [][NextAudit]_vars

\* every mutating operation of the manager
NextOps ==
    \/ Create
    \/ ReturnId
    \/ (nops < MaxAllOps /\ TaskOp)
    \/ (nops < MaxAllOps /\ PhaseOp)
    \/ (nops < MaxAllOps /\ CmdOp)
    \/ (nops < MaxAllOps /\ LifeOp)
    \/ ReturnIndex
    \/ Relocate
    \/ SaveStep

SpecOps == Init /\ [][NextOps]_vars

\* sessions saved by one process and loaded by the next
TripIds == {"s1", "s2"}

TripOp ==
    \/ \E ids \in {<<"a", "b">>, <<"b", "a">>} : SetPlan(ids)
    \/ \E id \in TaskIds : StartTask(id)
    \/ \E c \in Commands : LogCommandStart(c, "bash")
    \/ \E u \in Updates : Update(u)

NextRoundTrip ==
    \/ (nops < MaxTripOps /\ \E id \in TripIds : CreateSession(id, NoProfile))
    \/ ReturnId
    \/ (nops < MaxTripOps /\ TripOp)
    \/ ReturnIndex
    \/ SaveStep
    \/ (Idle /\ Crash)
    \/ (restarts < MaxRestarts /\ Restart)
    \/ (nops < MaxTripOps /\
           \E id \in TripIds : LoadSession(SessionName(id)))

SpecRoundTrip == Init /\ [][NextRoundTrip]_vars

\* signals delivered inside operations
NextSignal ==
    \/ Create
    \/ ReturnId
    \/ (nops < MaxSignalOps /\ \E id \in TaskIds : BeginStartTask(id))
    \/ (nops < MaxSignalOps /\ \E id \in TaskIds :
            BeginFailTask(id, Chars("e", 200) \o Chars("f", 300) \o Chars("g", 500)))
    \/ StepStartTask
    \/ StepFailTask
    \/ (nops < MaxSignalOps /\ CompleteSession)
    \/ Relocate
    \/ SaveStep
    \/ \E signum \in {"SIGTERM", "SIGINT"} : SignalDuring(signum)
    \/ Interrupt
    \/ Exit
    \/ Unwind

SpecSignal == Init /\ [][NextSignal]_vars

\* operations on a session, with one input each
ReloadOp ==
    \/ SetPhase("requirements")
    \/ RecordChoice("runtime", "A", "A")
    \/ RecordUserData("git_name", "x")
    \/ SetPlan(<<"a", "b">>)
    \/ StartTask("a")
    \/ CompleteTask("a")
    \/ FailTask("a", Chars("e", 4))
    \/ SkipTask("a")
    \/ LogCommandStart(Chars("c", 4), "bash")
    \/ LogCommandEnd(0, TRUE, Chars("o", 7), EmptyStr)
    \/ \E u \in Updates : Update(u)
    \/ CompleteSession
    \/ FailSession(Chars("r", 4))

\* a session interrupted by a signal and loaded again by the next process
NextReload ==
    \/ Create
    \/ ReturnId
    \/ (nops < MaxReloadOps /\ ReloadOp)
    \/ ReturnIndex
    \/ Relocate
    \/ SaveStep
    \/ Interrupt
    \/ Exit
    \/ (restarts < MaxRestarts /\ Restart)
    \/ (nops < MaxReloadOps /\ ~HasSession /\ Load)

SpecReload == Init /\ [][NextReload]_vars

\* A session that is interrupted between two statements of set_plan or
\* start_task and resumed by the next process; the interpreter calls before_command and
\* after_command around every command it runs, in strict alternation, and
\* the launcher's plan and task operations fall between two commands
NextResumed ==
    \/ Create
    \/ ReturnId
    \/ (nops < MaxResumedOps /\ op.name # "before_command" /\
           BeginSetPlan(<<"a", "b">>))
    \/ StepSetPlan
    \/ (nops < MaxResumedOps /\ op.name # "before_command" /\
           \E id \in TaskIds : BeginStartTask(id))
    \/ StepStartTask
    \/ (nops < MaxResumedOps /\ op.name # "before_command" /\
           BeforeCommand(Chars("c", 4), "bash"))
    \/ (op.name = "before_command" /\
           \E e \in {EmptyStr, Chars("e", 200) \o Chars("f", 300) \o Chars("g", 500)} :
               AfterCommand(Chars("o", 7), e))
    \/ AfterCommandFailTask
    \/ SaveStep
    \/ (pc \in MutationPcs \cup {"set_plan.tasks"} /\ SignalDuring("SIGTERM"))
    \/ Unwind
    \/ (restarts < MaxRestarts /\ Restart)
    \/ (nops < MaxResumedOps /\ ~HasSession /\ Load)

SpecResumed == Init /\ [][NextResumed]_vars

\* the drift of a report against a reference session
NextDrift ==
    /\ drift = NoneVal
    /\ \E installed \in SUBSET SeqRange(AuditOrder),
          entries \in SeqsUpTo(RefEntries, MaxRefLen) :
            CompareReference(installed, entries)

SpecDrift == Init /\ [][NextDrift]_vars

\* an audit run, sequential or through the worker pool
NextRunAudit ==
    \/ /\ audit.pc = "idle"
       /\ \E probes \in [SeqRange(SubSeq(Manifest, 1, MaxAuditTasks)) -> ProbeOutcomes],
             quick \in BOOLEAN, parallel \in BOOLEAN :
               AuditStart(probes, quick, parallel)
    \/ \E i \in 1..MaxAuditTasks : ProbeReturns(i)
    \/ AuditFinish

SpecRunAudit == Init /\ [][NextRunAudit]_vars

----------------------------------------------------------------------------
(* Properties *)

InSave == pc \in {"save", "write", "rename"}

\* the document found in the session file
Persisted == Parse(fs[session_file])

\* C1: once the session file has been created, at every step of a later
\* _save, whether the process is still running or was killed there, the
\* session file exists, is a complete document, and holds either the
\* previously saved document or the new one.
C1_CrashAtomicity ==
    (InSave /\ last_saved # EmptyDoc) =>
        /\ Exists(session_file)
        /\ IsComplete(fs[session_file])
        /\ fs[session_file] \in {Serialize(last_saved), Serialize(Stamp(state))}

\* the process was killed between the write of the temporary file and the
\* rename: the temporary file holds the new document, the session file the old
C1_Witness ==
    /\ alive = "crashed"
    /\ pc = "rename"
    /\ last_saved # EmptyDoc
    /\ state # last_saved
    /\ fs[TmpFile] = Serialize(state)
    /\ fs[session_file] = Serialize(last_saved)

\* C2: whenever the concurrent reader reads the session file, at any point
\* of the writer's _save steps, it gets a complete document, the previously
\* saved one or the new one, never a partial one (it finds no file only
\* before the first save of the session has completed).
C2_ReaderIsolation ==
    [][rd_obs' # rd_obs =>
          IF rd_obs' = Missing THEN last_saved = EmptyDoc
          ELSE /\ IsComplete(rd_obs')
               /\ rd_obs' \in {Serialize(last_saved), Serialize(Stamp(state))}]_vars

\* the reader holds the old document while the writer has the new one
\* completely written in the temporary file and has not renamed it yet
C2_Witness ==
    /\ alive = "running"
    /\ pc = "rename"
    /\ Exists(session_file)
    /\ rd_obs = fs[session_file]
    /\ rd_obs = Serialize(last_saved)
    /\ fs[TmpFile] = Serialize(state)
    /\ state # last_saved

TerminalStatus(call) == IF call.name = "complete_session" THEN "completed" ELSE "failed"

\* C3: when complete_session (resp. fail_session) returns on a session whose
\* file was in the active directory, the file exists in the completed (resp.
\* failed) directory under the same name, no longer exists in the active
\* directory, and holds status completed (resp. failed).
C3_LifecycleRelocation ==
    [][(pc = "relocate" /\ pc' = "idle" /\ session_file.dir = "active") =>
          LET dst == Path(TerminalStatus(op), session_file.stem, session_file.suffix)
          IN  /\ op.name \in {"complete_session", "fail_session"}
              /\ dst \in DOMAIN fs'
              /\ session_file \notin DOMAIN fs'
              /\ IsComplete(fs'[dst])
              /\ Parse(fs'[dst]).meta.status = TerminalStatus(op)
              /\ session_file' = dst]_vars

C3_Witness ==
    /\ pc = "idle"
    /\ alive = "running"
    /\ op.name = "complete_session"
    /\ session_file = Path("completed", state.meta.id, ".json")
    /\ Exists(session_file)
    /\ ~Exists(InDir("active", session_file))
    /\ Persisted.meta.status = "completed"

\* C4: between the save of the terminal status and the rename into the
\* completed/failed directory, also if the process is killed there, the
\* session file is still in the active directory, is a complete document
\* with the terminal status, and the destination directory holds no file
\* of the session.
C4_RelocationOrdering ==
    (pc = "relocate" /\ session_file.dir = "active") =>
        /\ Exists(session_file)
        /\ IsComplete(fs[session_file])
        /\ Persisted.meta.status = TerminalStatus(op)
        /\ ~Exists(InDir("completed", session_file))
        /\ ~Exists(InDir("failed", session_file))

C4_Witness ==
    /\ alive = "crashed"
    /\ pc = "relocate"
    /\ op.name = "fail_session"
    /\ session_file.dir = "active"
    /\ Persisted.meta.status = "failed"

\* C5: a termination signal between two operations.  If the status was
\* active, then when the process has exited the exit code is 0, the
\* in-memory and the persisted document have status interrupted and an
\* interrupted_at stamp.  If the status was not active, no step of the
\* handler changes the in-memory document or any file, and the exit code is 0.
C5_InterruptHandling ==
    /\ [](alive = "exited" => exit_code = 0)
    /\ []((alive = "exited" /\ op.name = "_handle_shutdown" /\ op.was = "active") =>
            /\ state.meta.status = "interrupted"
            /\ "interrupted_at" \in DOMAIN state.meta
            /\ Exists(session_file)
            /\ IsComplete(fs[session_file])
            /\ Persisted.meta.status = "interrupted"
            /\ "interrupted_at" \in DOMAIN Persisted.meta)
    /\ [][(op'.name = "_handle_shutdown" /\ op'.was # "active") =>
            (state' = state /\ fs' = fs /\ pc' = "exit")]_vars

C5_Witness ==
    /\ alive = "exited"
    /\ exit_code = 0
    /\ op.name = "_handle_shutdown"
    /\ op.was = "active"
    /\ Persisted.meta.status = "interrupted"

\* C6: set_plan(ids) leaves every existing task record as it is, whatever
\* its status; the only records it adds are {status: pending} for the
\* identifiers of ids that had none; afterwards every identifier of ids has
\* a record and plan = ids.
C6_IdempotentPlanSet ==
    [][(pc = "idle" /\ pc' = "save" /\ op'.name = "set_plan") =>
          /\ \A id \in DOMAIN state.tasks :
                id \in DOMAIN state'.tasks /\ state'.tasks[id] = state.tasks[id]
          /\ \A id \in (DOMAIN state'.tasks) \ (DOMAIN state.tasks) :
                /\ id \in SeqRange(op'.tasks)
                /\ state'.tasks[id] = [status |-> "pending"]
          /\ \A id \in SeqRange(op'.tasks) : id \in DOMAIN state'.tasks
          /\ state'.plan = op'.tasks]_vars

\* set_plan(<<a, b>>) has returned on a session where a was already started
C6_Witness ==
    /\ pc = "idle"
    /\ op.name = "set_plan"
    /\ op.tasks = <<"a", "b">>
    /\ state.tasks["a"] = [status |-> "in_progress", started |-> TS]
    /\ state.tasks["b"] = [status |-> "pending"]
    /\ Persisted.tasks = state.tasks

\* C7: from the call of start_task(id) on, until the next operation, the
\* record of id is exactly {status: in_progress, started}: no error,
\* failed_at, completed or skipped_at field is left from an earlier attempt;
\* and once start_task has returned the persisted record is the same.
C7_TaskRetry ==
    op.name = "start_task" =>
        /\ op.task_id \in DOMAIN state.tasks
        /\ state.tasks[op.task_id].status = "in_progress"
        /\ DOMAIN state.tasks[op.task_id] = {"status", "started"}
        /\ (pc = "idle" =>
               Persisted.tasks[op.task_id] = [status |-> "in_progress", started |-> TS])

\* start_task(id) is saving its document while the session file still holds
\* the failed record of id, with its error
C7_Witness ==
    /\ op.name = "start_task"
    /\ pc = "write"
    /\ Exists(session_file)
    /\ op.task_id \in DOMAIN Persisted.tasks
    /\ Persisted.tasks[op.task_id].status = "failed"
    /\ "error" \in DOMAIN Persisted.tasks[op.task_id]
    /\ "failed_at" \in DOMAIN Persisted.tasks[op.task_id]
    /\ state.tasks[op.task_id] = [status |-> "in_progress", started |-> TS]

\* the phases of the history, in order, followed by the current phase
PhaseTrail(doc) ==
    [i \in 1..(Len(doc.phase.history) + 1) |->
        IF i <= Len(doc.phase.history) THEN doc.phase.history[i].phase
        ELSE doc.phase.current]

\* C8: set_phase(p) with p the current phase changes neither the document nor
\* any file and starts no save; otherwise it appends exactly one history
\* entry, naming the outgoing phase, and makes p the current phase.  So the
\* history followed by the current phase starts with init and never holds
\* the same phase twice in a row.
C8_PhaseHistory ==
    /\ [](HasSession =>
            LET trail == PhaseTrail(state)
            IN  /\ trail[1] = "init"
                /\ \A i \in 1..(Len(trail) - 1) : trail[i] # trail[i + 1])
    /\ [][(nops' = nops + 1 /\ op'.name = "set_phase") =>
            IF op'.phase = state.phase.current
            THEN state' = state /\ fs' = fs /\ pc' = "idle"
            ELSE /\ state'.phase.current = op'.phase
                 /\ state'.phase.history =
                        Append(state.phase.history,
                               [phase |-> state.phase.current, ended |-> TS])
                 /\ pc' = "save"]_vars

\* two set_phase calls after create_session, the last one
\* set_phase("requirements"), and a single history entry, for init
C8_Witness ==
    /\ pc = "idle"
    /\ nops = 3
    /\ op = [name |-> "set_phase", phase |-> "requirements"]
    /\ state.choices = EmptyDict
    /\ state.user_data = EmptyDict
    /\ state.phase.current = "requirements"
    /\ Len(state.phase.history) = 1
    /\ state.phase.history[1].phase = "init"

CommandsOf(doc) == doc.execution.commands

\* C9: log_command_start appends one entry and leaves the earlier entries
\* where they are, and the index it returns is the position of that entry
\* (the number of entries logged before it: 0 on a fresh session, one more
\* at each call, as the log never shrinks); log_command_end(i, ...) with i
\* the index of an existing entry ends entry i and leaves every other entry
\* unchanged.
C9_CommandLogIndexing ==
    /\ []((pc = "idle" /\ op.name = "log_command_start") =>
            /\ result = [value |-> Len(CommandsOf(state)) - 1]
            /\ result.value >= 0
            /\ CommandsOf(state)[result.value + 1].command
                   = Truncate(op.command, CommandLimit)
            /\ CommandsOf(state)[result.value + 1].status = "running")
    /\ [][HasSession => Len(CommandsOf(state')) >= Len(CommandsOf(state))]_vars
    /\ [][(pc = "idle" /\ pc' = "save" /\ op'.name = "log_command_start") =>
            /\ Len(CommandsOf(state')) = Len(CommandsOf(state)) + 1
            /\ \A j \in 1..Len(CommandsOf(state)) :
                  CommandsOf(state')[j] = CommandsOf(state)[j]]_vars
    /\ [][(nops' = nops + 1 /\ op'.name = "log_command_end"
             /\ op'.index \in 0..(Len(CommandsOf(state)) - 1)) =>
            /\ Len(CommandsOf(state')) = Len(CommandsOf(state))
            /\ CommandsOf(state')[op'.index + 1].status
                   = (IF op'.success THEN "success" ELSE "failed")
            /\ CommandsOf(state')[op'.index + 1].command
                   = CommandsOf(state)[op'.index + 1].command
            /\ \A j \in 1..Len(CommandsOf(state)) :
                  j # op'.index + 1 => CommandsOf(state')[j] = CommandsOf(state)[j]]_vars

\* log_command_end(0, ...) has returned after two starts: entry 0 is ended,
\* entry 1 is still running
C9_Witness ==
    /\ pc = "idle"
    /\ op.name = "log_command_end"
    /\ op.index = 0
    /\ Len(CommandsOf(state)) = 2
    /\ CommandsOf(state)[1].status = "success"
    /\ CommandsOf(state)[2].status = "running"
    /\ CommandsOf(Persisted) = CommandsOf(state)

\* C10: the drift computed against a session document written by the state
\* machine takes as reference set the tasks whose record has status
\* completed: those not installed now are in removed_since_session, those
\* installed now are in still_installed and not in added_outside_session.
C10_DriftAgainstSession ==
    drift # NoneVal =>
        LET completed == {id \in DOMAIN drift.session.tasks :
                             drift.session.tasks[id].status = "completed"}
            installed == {t.task_id : t \in {x \in SeqRange(drift.tools) : x.installed}}
        IN  /\ drift.drift.removed_since_session = completed \ installed
            /\ drift.drift.still_installed = completed \cap installed
            /\ drift.drift.added_outside_session \cap completed = {}

\* the identifiers a list of completed-task entries names
RefIds(entries) ==
    {IF "task_id" \in DOMAIN e THEN e.task_id ELSE e.id : e \in SeqRange(entries)}

\* C11: for the set I of task identifiers reported installed and the
\* reference set S of the session's completed task identifiers, the drift is
\* added_outside_session = I \ S, removed_since_session = S \ I,
\* still_installed = I \cap S; the three sets are pairwise disjoint and
\* their union is I \cup S.
C11_DriftSetAlgebra ==
    (drift # NoneVal /\ "completed" \in DOMAIN drift) =>
        LET I == drift.installed
            S == RefIds(drift.completed)
            d == drift.drift
        IN  /\ d.added_outside_session = I \ S
            /\ d.removed_since_session = S \ I
            /\ d.still_installed = I \cap S
            /\ d.added_outside_session \cap d.removed_since_session = {}
            /\ d.added_outside_session \cap d.still_installed = {}
            /\ d.removed_since_session \cap d.still_installed = {}
            /\ d.added_outside_session \cup d.removed_since_session
                   \cup d.still_installed = I \cup S

C11_Witness ==
    /\ drift # NoneVal /\ "completed" \in DOMAIN drift
    /\ drift.installed = {"a", "b", "c"}
    /\ RefIds(drift.completed) = {"b", "c", "d"}
    /\ drift.drift = [added_outside_session |-> {"a"},
                      removed_since_session |-> {"d"},
                      still_installed |-> {"b", "c"}]

\* the ToolStatus entries the report holds for a task
ResultsOf(tid) == {i \in 1..Len(audit.tools) : audit.tools[i].task_id = tid}

\* C12: over the same task set with deterministic probes, an audit run
\* through the worker pool yields, for every completion order of the probes,
\* the same ordered tools sequence and the same summary as the sequential
\* loop, also when two tasks share category and name.
C12_ConcurrentAuditEquivalence ==
    (audit.pc = "done" /\ audit.pooled) =>
        LET tools == SequentialTools(audit.tasks, audit.probes, audit.quick)
        IN  /\ audit.tools = tools
            /\ audit.summary = Summary(tools)

\* C15: a probe whose check command times out is reported with
\* installed = false and a populated error, and every other task still has
\* its own result in the report.
C15_ProbeTimeout ==
    audit.pc = "done" =>
        \A tid \in SeqRange(audit.tasks) :
            audit.probes[tid] = "timeout" =>
                /\ \A other \in SeqRange(audit.tasks) : Cardinality(ResultsOf(other)) = 1
                /\ \A i \in ResultsOf(tid) :
                      ~audit.tools[i].installed /\ audit.tools[i].error # "None"

\* C16: a failure while probing one task (non-zero exit, launch failure,
\* timeout, missing check command, exception while extracting version or
\* install path) never aborts run_audit: the run ends with a report holding
\* one ToolStatus per task, and the failing task's ToolStatus has
\* installed = false and a populated error.
C16_ProbeErrorIsolation ==
    /\ audit.pc # "raised"
    /\ audit.pc = "done" =>
          \A tid \in SeqRange(audit.tasks) :
              /\ Cardinality(ResultsOf(tid)) = 1
              /\ audit.probes[tid] # "exit0" =>
                    \A i \in ResultsOf(tid) :
                        ~audit.tools[i].installed /\ audit.tools[i].error # "None"

\* s[n:]
RECURSIVE Drop(_, _)
Drop(s, n) ==
    IF s = <<>> \/ n <= 0 THEN s
    ELSE IF s[1][2] > n THEN << <<s[1][1], s[1][2] - n>> >> \o Tail(s)
    ELSE Drop(Tail(s), n - s[1][2])

\* s + t
Join(s, t) ==
    IF s = <<>> THEN t
    ELSE IF t = <<>> THEN s
    ELSE IF s[Len(s)][1] = t[1][1]
         THEN SubSeq(s, 1, Len(s) - 1)
                  \o << <<t[1][1], s[Len(s)][2] + t[1][2]>> >> \o Tail(t)
         ELSE s \o t

Min(a, b) == IF a <= b THEN a ELSE b

\* p is exactly the first n characters of s (all of s when it is shorter)
IsFirstChars(p, s, n) ==
    /\ StrLen(p) = Min(n, StrLen(s))
    /\ Join(p, Drop(s, n)) = s

\* C13: fail_task(id, error) stores as the task's error exactly the first
\* 500 characters of the error (unchanged when it has at most 500) and in
\* resume_point.error exactly its first 200 characters.
C13_Truncation ==
    (op.name = "fail_task" /\ err = "none") =>
        /\ IsFirstChars(state.tasks[op.task_id].error, op.error, 500)
        /\ StrLen(op.error) <= 500 => state.tasks[op.task_id].error = op.error
        /\ IsFirstChars(state.resume_point.error, op.error, 200)

C13_Witness ==
    /\ op.name = "fail_task" /\ err = "none" /\ pc = "idle"
    /\ StrLen(op.error) = 1000
    /\ StrLen(state.tasks[op.task_id].error) = 500
    /\ StrLen(state.resume_point.error) = 200

\* C14: the session status starts active and is monotonic: once completed
\* or failed, no operation changes it to a different status, and from active
\* it only moves to completed, failed or interrupted.
C14_StatusMonotonicity ==
    [][LET s == StatusOf(state)
           t == StatusOf(state')
       IN  /\ s = "None" => t \in {"None", "active"}
           /\ s \in {"completed", "failed"} => t = s
           /\ s = "active" => t \in {"active", "completed", "failed", "interrupted"}]_vars

\* C17: complete_task(id) and fail_task(id, error) on an identifier that has
\* no task record fail with an error and leave the in-memory document and
\* the persisted file unchanged.
C17_UnknownTask ==
    [][(/\ HasSession
        /\ nops' = nops + 1
        /\ op'.name \in {"complete_task", "fail_task"}
        /\ op'.task_id \notin DOMAIN state.tasks)
       => (/\ err' = "KeyError"
           /\ state' = state
           /\ fs' = fs
           /\ session_file' = session_file
           /\ pc' = pc)]_vars

C17_Witness ==
    /\ err = "KeyError"
    /\ op.name = "fail_task"
    /\ op.task_id \notin DOMAIN state.tasks
    /\ state.execution.current_task # NoTask
    /\ Persisted = state

MutatingOps ==
    {"set_phase", "record_choice", "record_user_data", "set_plan", "start_task",
     "complete_task", "fail_task", "skip_task", "log_command_start",
     "log_command_end", "complete_session", "fail_session"}

\* the last operation called has returned normally
Returned == pc = "idle" /\ alive = "running" /\ err = "none"

\* C18: after create_session, whenever a mutating operation has returned
\* normally, the document stored in the session's file equals the in-memory
\* document.
C18_PersistBeforeReturn ==
    (Returned /\ op.name \in MutatingOps \cup {"create_session"}) =>
        /\ Exists(session_file)
        /\ IsComplete(fs[session_file])
        /\ Parse(fs[session_file]) = state

C18_Witness ==
    /\ Returned /\ op.name = "log_command_end"
    /\ Len(state.execution.commands) = 1
    /\ state.execution.commands[1].status = "failed"
    /\ Exists(session_file)
    /\ Parse(fs[session_file]) = state

\* the directories that hold a file named <id>.json
LocationsOf(id) ==
    {d \in {"active", "completed", "failed"} : Exists(Path(d, id, ".json"))}

\* C19: from the return of create_session on, after any sequence of
\* operations and at every intermediate step of complete_session and
\* fail_session, the session's file <session-id>.json exists in exactly one
\* of the active, completed and failed directories.
C19_OneLocation ==
    (HasSession /\ ~(op.name = "create_session" /\ InSave)) =>
        Cardinality(LocationsOf(state.meta.id)) = 1

C19_Witness ==
    /\ HasSession
    /\ op.name = "fail_session" /\ pc = "idle"
    /\ LocationsOf(state.meta.id) = {"completed"}

\* C20: loading the file of a session persisted after any sequence of
\* operations replaces the in-memory state wholesale with a document equal
\* to the one that was saved there (every field), with nothing of the
\* previously held session remaining.
C20_SaveLoadRoundTrip ==
    [][(nops' = nops + 1 /\ op'.name = "load_session" /\ err' = "none")
       => (/\ op'.path \in DOMAIN saved
           /\ state' = saved[op'.path]
           /\ result' = [value |-> saved[op'.path]])]_vars

C20_Witness ==
    /\ op.name = "load_session" /\ err = "none"
    /\ op.held = "s2"
    /\ state.meta.id = "s1"
    /\ state.plan = <<"b", "a">>
    /\ state.expansion_history = <<"e1">>
    /\ state.profile = NoProfile

\* the handler has run inside an operation and the process has exited
InterruptedIn(pcs) ==
    /\ alive = "exited"
    /\ op.name = "_handle_shutdown"
    /\ "at" \in DOMAIN op
    /\ op.at \in pcs

\* a document without the handler's own marks
Unmarked(doc) ==
    [doc EXCEPT !.meta = Put(Remove(@, "interrupted_at"), "status", "active")]

\* the document the interrupted operation leaves when it runs to its end
Completed(call) ==
    IF call.name = "start_task" THEN DocStartTask(call.before, call.task_id)
    ELSE DocFailTask(call.before, call.task_id, call.error)

\* C21: if a termination signal is delivered between the field updates of a
\* mutating operation, the document the handler persists equals the document
\* as it was before the operation or as it is after the whole operation,
\* apart from status = interrupted and interrupted_at; it never holds a
\* half-applied mutation.
C21_NoSuspensionMidMutation ==
    (InterruptedIn(MutationPcs) /\ op.was = "active") =>
        /\ Exists(session_file)
        /\ IsComplete(fs[session_file])
        /\ Unmarked(Persisted) \in {Unmarked(op.during.before),
                                    Unmarked(Completed(op.during))}
        /\ Persisted.execution.current_task # NoTask =>
              Persisted.tasks[Persisted.execution.current_task].status = "in_progress"

\* C22: if a termination signal is delivered while a save is in progress
\* (the temporary file open and partly written, or written and not yet
\* renamed), then when the process has exited the session file is a
\* complete, valid document with status interrupted: the interrupted outer
\* save has not overwritten or corrupted what the handler saved.
C22_InterruptDuringSave ==
    (InterruptedIn({"write", "rename"}) /\ op.was = "active") =>
        /\ Exists(session_file)
        /\ IsComplete(fs[session_file])
        /\ Persisted.meta.status = "interrupted"
        /\ Persisted = state

\* C23: after a session was interrupted, load_session reports status
\* interrupted, and no task, phase, choice, plan or command-log operation on
\* the reloaded session changes the status: it stays interrupted until an
\* explicit status write or a complete_session/fail_session.
C23_InterruptedSticky ==
    /\ [][(/\ nops' = nops + 1
           /\ op'.name = "load_session"
           /\ err' = "none"
           /\ StatusOf(saved[op'.path]) = "interrupted")
          => (/\ StatusOf(state') = "interrupted"
              /\ result'.value.meta.status = "interrupted")]_vars
    /\ [][(StatusOf(state) = "interrupted" /\ StatusOf(state') # "interrupted")
          => op'.name \in {"update", "complete_session", "fail_session",
                           "__init__"}]_vars

C23_Witness ==
    /\ restarts = 1
    /\ op.name = "start_task" /\ Returned
    /\ StatusOf(state) = "interrupted"
    /\ Persisted.meta.status = "interrupted"
    /\ Persisted.tasks["a"].status = "in_progress"

\* C24: complete_session or fail_session on a session whose file is no
\* longer in the active directory raises no error and moves no file: at
\* every step of the call the file stays in the directory it was relocated
\* to.
C24_RelocationIdempotent ==
    [][(/\ op'.name \in {"complete_session", "fail_session"}
        /\ session_file # NoPath
        /\ session_file.dir # "active")
       => (/\ session_file' = session_file
           /\ LocationsOf(session_file.stem)' = {session_file.dir}
           /\ err' = "none")]_vars

C24_Witness ==
    /\ op.name = "complete_session" /\ Returned
    /\ StatusOf(state) = "completed"
    /\ session_file.dir = "failed"
    /\ LocationsOf(state.meta.id) = {"failed"}

TaskStatuses == {"pending", "in_progress", "completed", "failed", "skipped"}

\* C25: in every reachable state execution.current_task is either none or
\* the identifier of a task whose record has status in_progress.
C25_CurrentTaskInProgress ==
    (HasSession /\ state.execution.current_task # NoTask) =>
        /\ state.execution.current_task \in DOMAIN state.tasks
        /\ state.tasks[state.execution.current_task].status = "in_progress"

\* C26: after complete_task(id) on an existing task execution.current_task
\* is none, whatever it was before, also when it named a different task than
\* id; the completed record has status completed.
C26_CompleteClearsCurrent ==
    (op.name = "complete_task" /\ err = "none") =>
        /\ state.execution.current_task = NoTask
        /\ state.tasks[op.task_id].status = "completed"
        /\ Returned => Persisted.execution.current_task = NoTask

C26_Witness ==
    /\ op.name = "complete_task" /\ err = "none" /\ InSave
    /\ op.task_id = "a"
    /\ Persisted.execution.current_task = "b"
    /\ state.execution.current_task = NoTask

\* C27: only start_task and fail_task write resume_point; complete_task,
\* skip_task, set_plan, set_phase, record_choice, record_user_data and the
\* command-log operations leave it unchanged, and once it is set no
\* operation resets it to none.
C27_ResumePointKept ==
    [][(HasSession /\ HasSession') =>
          /\ state'.resume_point # state.resume_point
                => op'.name \in {"start_task", "fail_task"}
          /\ state.resume_point # NoneVal => state'.resume_point # NoneVal]_vars

C27_Witness ==
    /\ op.name = "complete_task" /\ Returned
    /\ state.resume_point = [task_id |-> op.task_id, action |-> "retry"]
    /\ Persisted.resume_point = state.resume_point

\* C28: in every reachable state a task record carries an error field only
\* if its status is failed, and its status is one of pending, in_progress,
\* completed, failed, skipped.
C28_ErrorOnlyWhenFailed ==
    HasSession =>
        \A id \in DOMAIN state.tasks :
            /\ state.tasks[id].status \in TaskStatuses
            /\ "error" \in DOMAIN state.tasks[id] => state.tasks[id].status = "failed"

\* C29: for every index that does not designate an existing entry of
\* execution.commands (index greater than or equal to the log length, or a
\* negative index), log_command_end changes no entry, does not persist and
\* raises no error.
C29_MissingEntryNoOp ==
    [][(/\ nops' = nops + 1
        /\ op'.name = "log_command_end"
        /\ (op'.index >= Len(CommandsOf(state)) \/ op'.index < 0))
       => (/\ state' = state
           /\ pc' = "idle"
           /\ err' = "none")]_vars

EndFields == {"status", "ended", "output", "error"}

\* C30: across any sequence of operations the length of execution.commands
\* never decreases, existing entries keep their position, and the command,
\* language and started fields of an existing entry never change; only
\* log_command_end changes an entry, and only its status, ended, output and
\* error.
C30_CommandLogAppendOnly ==
    [][(HasSession /\ HasSession') =>
          LET old == CommandsOf(state)
              new == CommandsOf(state')
          IN  /\ Len(new) >= Len(old)
              /\ \A i \in 1..Len(old) :
                    /\ new[i].command = old[i].command
                    /\ new[i].language = old[i].language
                    /\ new[i].started = old[i].started
                    /\ new[i] # old[i] =>
                          /\ op'.name = "log_command_end"
                          /\ DOMAIN new[i] \ EndFields = DOMAIN old[i] \ EndFields
                          /\ \A k \in DOMAIN old[i] \ EndFields : new[i][k] = old[i][k]]_vars

C30_Witness ==
    /\ Returned
    /\ op.name = "log_command_start"
    /\ Len(CommandsOf(state)) = 2
    /\ CommandsOf(state)[1].status = "success"
    /\ CommandsOf(state)[2].status = "running"
    /\ CommandsOf(Persisted) = CommandsOf(state)

\* C31: start_task(id) sets execution.current_task to id and resume_point to
\* {task_id: id, action: retry} with no error field, replacing any previous
\* current task and resume point, overwrites the task's record and leaves
\* every other task's record unchanged.
C31_StartTask ==
    [][(nops' = nops + 1 /\ op'.name = "start_task") =>
          LET id == op'.task_id
          IN  /\ state'.execution.current_task = id
              /\ state'.resume_point = [task_id |-> id, action |-> "retry"]
              /\ state'.tasks[id] = [status |-> "in_progress", started |-> TS]
              /\ DOMAIN state'.tasks = DOMAIN state.tasks \cup {id}
              /\ \A other \in DOMAIN state.tasks \ {id} :
                    state'.tasks[other] = state.tasks[other]]_vars

C31_Witness ==
    /\ op.name = "start_task" /\ op.task_id = "b" /\ InSave
    /\ Persisted.execution.current_task = "a"
    /\ Persisted.resume_point.action = "retry_or_skip"
    /\ "error" \in DOMAIN Persisted.tasks["a"]
    /\ state.execution.current_task = "b"
    /\ state.resume_point = [task_id |-> "b", action |-> "retry"]
    /\ state.tasks["a"] = Persisted.tasks["a"]

\* C32: after create_session no phase, choice, plan, task, command-log,
\* session-lifecycle or interrupt operation changes meta.id, meta.created or
\* profile, and the session file's name is always <meta.id>.json.
C32_IdentityImmutable ==
    [][(HasSession /\ HasSession') =>
          /\ Get(state'.meta, "id", "None") = state.meta.id
          /\ Get(state'.meta, "created", "None") = state.meta.created
          /\ state'.profile = state.profile
          /\ session_file'.stem = state'.meta.id
          /\ session_file'.suffix = ".json"]_vars

C32_Witness ==
    /\ op.name = "fail_session" /\ Returned
    /\ restarts = 1
    /\ state.profile = "fullstack-web"
    /\ session_file = Path("failed", state.meta.id, ".json")
    /\ Persisted.meta.id = state.meta.id
    /\ Persisted.meta.created = TS

\* C33: from create_session on, whenever the manager is between two
\* operations every identifier in plan has a record in tasks, and no
\* operation removes a key from tasks.
C33_PlanCovered ==
    /\ []((HasSession /\ Idle) =>
             \A i \in 1..Len(state.plan) : state.plan[i] \in DOMAIN state.tasks)
    /\ [][(HasSession /\ HasSession') =>
             DOMAIN state.tasks \subseteq DOMAIN state'.tasks]_vars

\* C34: when load_session(path) fails (file absent or not deserializable)
\* the manager still holds its previous session, the in-memory document and
\* the file it writes to, so a later mutating operation never creates or
\* overwrites a file other than the held session's.
C34_FailedLoadKeepsSession ==
    /\ [][(/\ HasSession
           /\ nops' = nops + 1
           /\ op'.name = "load_session"
           /\ err' # "none")
          => (state' = state /\ session_file' = session_file)]_vars
    /\ [][(HasSession /\ alive = "running") =>
             \A p \in DOMAIN fs' :
                (p \notin DOMAIN fs \/ fs'[p] # fs[p]) => p.stem = state.meta.id]_vars

\* C35: after any sequence of complete_session and fail_session calls a
\* session file in the completed directory holds status completed and one in
\* the failed directory holds status failed.
C35_PartitionMatchesStatus ==
    \A p \in DOMAIN fs :
        (p.suffix = ".json" /\ p.dir \in {"completed", "failed"} /\ IsComplete(fs[p]))
            => Parse(fs[p]).meta.status = p.dir

\* the tasks whose probe is over
Probed == {tid \in SeqRange(audit.tasks) :
              \A i \in audit.pending : audit.tasks[i] # tid}

\* C36: check_tool reports installed = true exactly when the check command
\* exits with code 0; a task with no check command is reported
\* installed = false with error "No detection command" and runs no command;
\* version and install_path are looked up only when the tool is installed and
\* quick is false, and stay empty otherwise.
C36_ProbeClassification ==
    audit.pc # "idle" =>
        \A tid \in Probed :
            LET outcome == audit.probes[tid]
                exit0 == outcome # "no_command" /\ RunCommand(outcome).code = 0
                lookups == {"version_command", "command -v"}
                           \cap SeqRange(ProbeCommands(outcome, audit.quick))
            IN  /\ Cardinality(ResultsOf(tid)) = 1
                /\ \A i \in ResultsOf(tid) :
                      LET t == audit.tools[i]
                      IN  /\ t.installed <=> exit0
                          /\ outcome = "no_command" =>
                                /\ t.error = "No detection command"
                                /\ ProbeCommands(outcome, audit.quick) = <<>>
                          /\ (~t.installed \/ audit.quick) =>
                                /\ t.version = "None" /\ t.install_path = "None"
                                /\ lookups = {}

\* C37: run_audit uses the worker pool exactly when parallel is true and
\* quick is false, and in both modes, once all probes have returned, the
\* report holds exactly one ToolStatus per task of the task set, ordered by
\* non-decreasing (category, name).
C37_OneResultPerTask ==
    /\ audit.pc # "idle" => (audit.pooled <=> (audit.parallel /\ ~audit.quick))
    /\ audit.pc = "done" =>
          /\ Len(audit.tools) = Len(audit.tasks)
          /\ \A tid \in SeqRange(audit.tasks) : Cardinality(ResultsOf(tid)) = 1
          /\ \A i \in 1..(Len(audit.tools) - 1) :
                LET t == audit.tools[i]
                    u == audit.tools[i + 1]
                IN  \/ Rank(t.category) < Rank(u.category)
                    \/ (t.category = u.category /\ Rank(t.name) <= Rank(u.name))

C37_Witness ==
    /\ audit.pc = "done" /\ audit.pooled
    /\ audit.probes["c"] = "no_command" /\ audit.probes["b"] = "timeout"
    /\ [i \in 1..3 |-> audit.tools[i].task_id] = <<"d", "c", "b">>

RECURSIVE SumOver(_, _, _)
SumOver(tally, cats, key) ==
    IF cats = {} THEN 0
    ELSE LET c == CHOOSE x \in cats : TRUE
         IN  tally[c][key] + SumOver(tally, cats \ {c}, key)

\* C38: in every audit report installed + not_installed + errors =
\* total_tools = number of tools, each tool counted in exactly one of the
\* three; the per-category totals sum to total_tools, the per-category
\* installed counts sum to installed, and installed <= total per category.
C38_SummaryPartition ==
    audit.pc = "done" =>
        LET s == audit.summary
            tools == audit.tools
            cats == DOMAIN s.by_category
        IN  /\ s.total_tools = Len(tools)
            /\ s.installed + s.not_installed + s.errors = s.total_tools
            /\ \A i \in 1..Len(tools) :
                  Cardinality({k \in {"installed", "not_installed", "errors"} :
                      \/ k = "installed" /\ tools[i].installed
                      \/ k = "not_installed" /\ ~tools[i].installed
                                             /\ tools[i].error = "None"
                      \/ k = "errors" /\ tools[i].error # "None"}) = 1
            /\ SumOver(s.by_category, cats, "total") = s.total_tools
            /\ SumOver(s.by_category, cats, "installed") = s.installed
            /\ \A c \in cats : s.by_category[c].installed <= s.by_category[c].total

C38_Witness ==
    /\ audit.pc = "done"
    /\ audit.summary.total_tools = 3
    /\ audit.summary.installed = 1
    /\ audit.summary.not_installed = 1
    /\ audit.summary.errors = 1
    /\ DOMAIN audit.summary.by_category = {"core", "dev"}
    /\ audit.summary.by_category["dev"] = [installed |-> 1, total |-> 2]

\* C39: with before_command and after_command in strict alternation, each
\* after_command ends exactly the entry appended by the preceding
\* before_command (success when the error is empty, failed otherwise), so no
\* entry of a finished command stays running; when the command failed while
\* execution.current_task is set, that task is marked failed with resume_point
\* {task_id, retry_or_skip, error}; the hooks never raise, because
\* execution.current_task always names an existing task record.
C39_CommandHooks ==
    /\ [][(nops' = nops + 1 /\ op'.name = "after_command") =>
             LET old == CommandsOf(state)
                 new == CommandsOf(state')
                 n == Len(old)
             IN  /\ Len(new) = n
                 /\ old[n].status = "running"
                 /\ new[n].status = IF op'.error = EmptyStr THEN "success" ELSE "failed"
                 /\ \A i \in 1..(n - 1) : new[i] = old[i]]_vars
    /\ [](op.name \in {"before_command", "after_command"} => err = "none")
    /\ []((HasSession /\ Idle /\ state.execution.current_task # NoTask)
             => state.execution.current_task \in DOMAIN state.tasks)
    /\ []((op.name = "after_command" /\ Idle) =>
             LET current_task == state.execution.current_task
             IN  /\ \A i \in 1..Len(CommandsOf(state)) :
                       CommandsOf(state)[i].status # "running"
                 /\ CommandsOf(Persisted) = CommandsOf(state)
                 /\ (~op.success /\ current_task # NoTask) =>
                       /\ state.tasks[current_task].status = "failed"
                       /\ state.resume_point.task_id = current_task
                       /\ state.resume_point.action = "retry_or_skip"
                       /\ IsFirstChars(state.resume_point.error, op.error,
                                       ResumeErrorLimit)
                       /\ Persisted = state)

====
